---- MODULE Spec2Model ----
(***************************************************************************)
(* Model of src/raf/RequestAnimationFrame.ts: the frame scheduler that     *)
(* drives a callback through window.requestAnimationFrame or               *)
(* window.setTimeout, together with the part of the host (window) it       *)
(* talks to: the two tables of pending requests, their handle counters and *)
(* the monotonic clock.                                                    *)
(***************************************************************************)
EXTENDS Integers, FiniteSets, Sequences, TLC

\* Bounds of the model: handles handed out per primitive, clock readings.
MaxHandle == 3
MaxTime == 1

\* The default value of fn, () => { }, and the callbacks a caller may pass.
NoOp == "noop"
Callbacks == {"cb1", "cb2"}

\* What a caller's callback does when invoked: it returns, it throws, or it
\* calls stop() on the scheduler and returns.
Behaviours == {"returns", "throws", "stops"}

\* The argument a setTimeout handler receives: none.
Undefined == -1

VARIABLES
  id,               \* this.id
  running,          \* this.running
  fn,               \* this.fn
  usingSetTimeout,  \* this.usingSetTimeout
  nativeRAF,        \* window has its own requestAnimationFrame / cancelAnimationFrame
  pending,          \* requests of the host that have been armed and neither fired nor cancelled
  nextRAF,          \* next handle requestAnimationFrame returns
  nextTimer,        \* next handle setTimeout returns
  now,              \* window.performance.now()
  last,             \* history: the last operation, its arguments and what it did
                    \* (seq alternates so that every operation changes it)
  sinceStop,        \* history: stop() has returned and neither start() nor restart() was called since
  scenarioC,        \* history: start(cb, false) while not running, then stop() before any firing
  halt,             \* history: a throwing callback left nothing outstanding
  idBackend,        \* history: the primitive that returned the handle held in id
  configured,       \* history: the arguments of the latest start() that took effect
  armedSinceStop    \* history: arming requests issued since stop() returned (counted up to 2)

vars == <<id, running, fn, usingSetTimeout, nativeRAF, pending, nextRAF,
          nextTimer, now, last, sinceStop, scenarioC, halt, idBackend,
          configured, armedSinceStop>>

\* The scheduler and the host as one value, threaded through the methods.
\* invoked, armed, cancelled, threw, stopped, stoppedAt, ret and retBackend
\* describe the call in progress.
World ==
  [id |-> id, running |-> running, fn |-> fn, usingSetTimeout |-> usingSetTimeout,
   pending |-> pending, nextRAF |-> nextRAF, nextTimer |-> nextTimer,
   idBackend |-> idBackend,
   invoked |-> <<>>, armed |-> <<>>, cancelled |-> <<>>, threw |-> FALSE,
   stopped |-> FALSE, stoppedAt |-> 0, ret |-> 0, retBackend |-> "none"]

\* window.setTimeout(handler, 1000 / 60): a new pending timer, its handle returned.
SetTimeout(w, step) ==
  [w EXCEPT !.pending = @ \cup {[ns |-> "timer", h |-> w.nextTimer, step |-> step]},
            !.nextTimer = @ + 1,
            !.armed = Append(@, "timer"),
            !.ret = w.nextTimer,
            !.retBackend = "timer"]

\* window.clearTimeout(h): removes the pending timer with that handle, if any.
ClearTimeout(w, h) ==
  [w EXCEPT !.pending = {r \in @ : ~(r.ns = "timer" /\ r.h = h)},
            !.cancelled = Append(@, [prim |-> "timer", h |-> h])]

\* window.requestAnimationFrame as the constructor leaves it: the host's own,
\* or function (f) { return setTimeout(f, 1000 / 60) }.
WindowRequestAnimationFrame(w) ==
  IF nativeRAF
    THEN [w EXCEPT !.pending = @ \cup {[ns |-> "raf", h |-> w.nextRAF, step |-> "updateRAF"]},
                   !.nextRAF = @ + 1,
                   !.armed = Append(@, "raf"),
                   !.ret = w.nextRAF,
                   !.retBackend = "raf"]
    ELSE SetTimeout(w, "updateRAF")

\* window.cancelAnimationFrame as the constructor leaves it: the host's own,
\* or function () { clearTimeout(this.id) } whose this is window, so that
\* this.id is undefined.
WindowCancelAnimationFrame(w, h) ==
  IF nativeRAF
    THEN [w EXCEPT !.pending = {r \in @ : ~(r.ns = "raf" /\ r.h = h)},
                   !.cancelled = Append(@, [prim |-> "raf", h |-> h])]
    ELSE ClearTimeout(w, Undefined)

stopKeepsFn(w) ==
  LET w1 == IF w.usingSetTimeout THEN ClearTimeout(w, w.id)
                                 ELSE WindowCancelAnimationFrame(w, w.id)
  IN  [w1 EXCEPT !.id = 0, !.idBackend = "none", !.running = FALSE,
                 !.stopped = TRUE, !.stoppedAt = Len(w.armed)]

stopEarlyReturn(w) ==
  LET w1 == IF w.usingSetTimeout THEN ClearTimeout(w, w.id)
                                 ELSE WindowCancelAnimationFrame(w, w.id)
  IN  IF w.id = 0 THEN [w EXCEPT !.stopped = TRUE, !.stoppedAt = Len(w.armed)]
      ELSE [w1 EXCEPT !.id = 0, !.idBackend = "none", !.running = FALSE, !.fn = NoOp,
                      !.stopped = TRUE, !.stoppedAt = Len(w.armed)]

stopKeepsId(w) ==
  LET w1 == IF w.usingSetTimeout THEN ClearTimeout(w, w.id)
                                 ELSE WindowCancelAnimationFrame(w, w.id)
  IN  [w1 EXCEPT !.running = FALSE, !.fn = NoOp,
                 !.stopped = TRUE, !.stoppedAt = Len(w.armed)]

stop(w) ==
  LET w1 == IF w.usingSetTimeout THEN ClearTimeout(w, w.id)
                                 ELSE WindowCancelAnimationFrame(w, w.id)
  IN  [w1 EXCEPT !.id = 0, !.idBackend = "none", !.running = FALSE, !.fn = NoOp,
                 !.stopped = TRUE, !.stoppedAt = Len(w.armed)]

\* this.fn(timestamp): the no-op does nothing; a caller's callback returns,
\* throws, or calls stop() before it returns.
Invoke(w, timestamp, does) ==
  LET w1 == [w EXCEPT !.invoked = Append(@, [fn |-> w.fn, ts |-> timestamp,
                                             running |-> w.running,
                                             armedBefore |-> Len(w.armed)])]
  IN  CASE w.fn = NoOp -> w1
        [] does = "throws" -> [w1 EXCEPT !.threw = TRUE]
        [] does = "stops" -> stop(w1)
        [] OTHER -> w1

updateRAFRearmsOnThrow(w, timestamp, does) ==
  LET w1 == [w EXCEPT !.running = TRUE]
      w2 == Invoke(w1, timestamp, does)
      w3 == WindowRequestAnimationFrame(w2)
  IN  [w3 EXCEPT !.id = w3.ret, !.idBackend = w3.retBackend]

updateRAFArmsFirst(w, timestamp, does) ==
  LET w1 == [w EXCEPT !.running = TRUE]
      w2 == WindowRequestAnimationFrame(w1)
      w3 == [w2 EXCEPT !.id = w2.ret, !.idBackend = w2.retBackend]
  IN  Invoke(w3, timestamp, does)

updateRAFChecksRunning(w, timestamp, does) ==
  LET w1 == [w EXCEPT !.running = TRUE]
      w2 == Invoke(w1, timestamp, does)
      w3 == WindowRequestAnimationFrame(w2)
  IN  IF w2.threw \/ ~w2.running THEN w2
      ELSE [w3 EXCEPT !.id = w3.ret, !.idBackend = w3.retBackend]

updateRAF(w, timestamp, does) ==
  LET w1 == [w EXCEPT !.running = TRUE]
      w2 == Invoke(w1, timestamp, does)
      w3 == WindowRequestAnimationFrame(w2)
  IN  IF w2.threw THEN w2 ELSE [w3 EXCEPT !.id = w3.ret, !.idBackend = w3.retBackend]

updateTimeout(w, does) ==
  LET w2 == Invoke(w, now, does)
      w3 == SetTimeout(w2, "updateTimeout")
  IN  IF w2.threw THEN w2 ELSE [w3 EXCEPT !.id = w3.ret, !.idBackend = w3.retBackend]

startNoGuard(w, f, forceSetTimeout, does) ==
  LET w1 == [w EXCEPT !.running = TRUE, !.fn = f]
  IN  IF forceSetTimeout
        THEN updateTimeout([w1 EXCEPT !.usingSetTimeout = TRUE], does)
        ELSE WindowRequestAnimationFrame(w1)

start(w, f, forceSetTimeout, does) ==
  IF w.running THEN w
  ELSE LET w1 == [w EXCEPT !.running = TRUE, !.fn = f]
       IN  IF forceSetTimeout
             THEN updateTimeout([w1 EXCEPT !.usingSetTimeout = TRUE], does)
             ELSE WindowRequestAnimationFrame(w1)

restart(w, does) ==
  LET w1 == IF w.usingSetTimeout THEN ClearTimeout(w, w.id)
                                 ELSE WindowCancelAnimationFrame(w, w.id)
      w2 == [w1 EXCEPT !.id = 0, !.idBackend = "none", !.running = FALSE]
      w3 == IF w2.usingSetTimeout THEN updateTimeout(w2, does)
                                  ELSE WindowRequestAnimationFrame(w2)
  IN  IF w3.threw THEN w3 ELSE [w3 EXCEPT !.running = TRUE]

\* The history variables after operation op has produced w.
NextSinceStop(op, w) ==
  CASE w.stopped -> TRUE
    [] op \in {"start", "restart"} -> FALSE
    [] OTHER -> sinceStop

NextScenarioC(op, f, forceSetTimeout) ==
  CASE op = "start" ->
         IF ~running /\ ~forceSetTimeout
           THEN [phase |-> "started", cb |-> f]
           ELSE [phase |-> "off", cb |-> NoOp]
    [] op = "stop" ->
         IF scenarioC.phase \in {"started", "stopped"}
           THEN [scenarioC EXCEPT !.phase = "stopped"]
           ELSE scenarioC
    [] op = "restart" -> [phase |-> "off", cb |-> NoOp]
    [] OTHER ->
         IF scenarioC.phase = "started" THEN [phase |-> "off", cb |-> NoOp]
                                        ELSE scenarioC

\* A callback threw and nothing but what that very operation armed is
\* outstanding; it lasts until stop(), restart() or a new arming request.
NextHalt(op, w) ==
  CASE w.threw -> Cardinality(w.pending) = Len(w.armed)
    [] op \in {"stop", "restart"} \/ w.stopped -> FALSE
    [] OTHER -> halt /\ w.armed = <<>>

\* The backend of the live chain: the one of the latest arming request, none
\* once stop() has cancelled or a throw has ended it.
NextChain(op, w) ==
  CASE w.armed # <<>> -> w.armed[Len(w.armed)]
    [] w.threw \/ op = "stop" -> "none"
    [] OTHER -> last.chain

\* The arguments of the latest start() that got past the running guard.
NextConfigured(op, f, forceSetTimeout) ==
  IF op = "start" /\ ~running
    THEN [set |-> TRUE, fn |-> f, force |-> forceSetTimeout]
    ELSE configured

\* Arming requests issued after the latest stop() returned, counted up to 2.
NextArmedSinceStop(op, w) ==
  LET n == CASE w.stopped -> Len(w.armed) - w.stoppedAt
             [] op \in {"start", "restart"} -> 0
             [] sinceStop -> armedSinceStop + Len(w.armed)
             [] OTHER -> 0
  IN  IF n > 2 THEN 2 ELSE n

\* An arming primitive hands out at most MaxHandle handles.
HandlesLeft(w) ==
  /\ w.nextRAF <= MaxHandle + 1
  /\ w.nextTimer <= MaxHandle + 1

\* The state after operation op, called with (f, forceSetTimeout), produced w.
Commit(op, f, forceSetTimeout, w) ==
  /\ id' = w.id
  /\ running' = w.running
  /\ fn' = w.fn
  /\ usingSetTimeout' = w.usingSetTimeout
  /\ pending' = w.pending
  /\ nextRAF' = w.nextRAF
  /\ nextTimer' = w.nextTimer
  /\ idBackend' = w.idBackend
  /\ last' = [seq |-> 1 - last.seq, op |-> op, fn |-> f, force |-> forceSetTimeout,
              wasRunning |-> running, wasId |-> id, wasFn |-> fn,
              invoked |-> w.invoked,
              armed |-> w.armed, cancelled |-> w.cancelled, threw |-> w.threw,
              stopped |-> w.stopped, chain |-> NextChain(op, w)]
  /\ sinceStop' = NextSinceStop(op, w)
  /\ scenarioC' = NextScenarioC(op, f, forceSetTimeout)
  /\ halt' = NextHalt(op, w)
  /\ configured' = NextConfigured(op, f, forceSetTimeout)
  /\ armedSinceStop' = NextArmedSinceStop(op, w)
  /\ UNCHANGED <<nativeRAF, now>>

\* A scheduler just constructed, whatever the host offers.
InitScheduler ==
  /\ id = 0
  /\ running = FALSE
  /\ fn = NoOp
  /\ usingSetTimeout = FALSE
  /\ pending = {}
  /\ nextRAF = 1
  /\ nextTimer = 1
  /\ now = 0
  /\ last = [seq |-> 0, op |-> "new", fn |-> NoOp, force |-> FALSE, wasRunning |-> FALSE,
             wasId |-> 0, wasFn |-> NoOp,
             invoked |-> <<>>, armed |-> <<>>, cancelled |-> <<>>, threw |-> FALSE,
             stopped |-> FALSE, chain |-> "none"]
  /\ sinceStop = FALSE
  /\ scenarioC = [phase |-> "off", cb |-> NoOp]
  /\ halt = FALSE
  /\ idBackend = "none"
  /\ configured = [set |-> FALSE, fn |-> NoOp, force |-> FALSE]
  /\ armedSinceStop = 0

\* Constructed in a host that has requestAnimationFrame and cancelAnimationFrame.
Init ==
  /\ nativeRAF = TRUE
  /\ InitScheduler

\* Constructed in a host that has neither, so that the constructor installs
\* its setTimeout / clearTimeout substitutes.
InitNoRAF ==
  /\ nativeRAF = FALSE
  /\ InitScheduler

\* The owner calls start(f, forceSetTimeout).
StartCall ==
  \E f \in Callbacks, forceSetTimeout \in BOOLEAN, does \in Behaviours :
    LET w == start(World, f, forceSetTimeout, does)
    IN  /\ HandlesLeft(w)
        /\ Commit("start", f, forceSetTimeout, w)

\* The owner calls stop().
StopCall ==
  LET w == stop(World)
  IN  /\ HandlesLeft(w)
      /\ Commit("stop", NoOp, FALSE, w)

\* The owner calls restart().
RestartCall ==
  \E does \in Behaviours :
    LET w == restart(World, does)
    IN  /\ HandlesLeft(w)
        /\ Commit("restart", NoOp, FALSE, w)

\* The host fires a pending animation frame request with the frame's timestamp.
AnimationFrameFires ==
  \E r \in pending, does \in Behaviours :
    LET w == updateRAF([World EXCEPT !.pending = @ \ {r}], now, does)
    IN  /\ r.ns = "raf"
        /\ HandlesLeft(w)
        /\ Commit("updateRAF", NoOp, FALSE, w)

\* The host fires a pending timer; its handler receives no argument.
TimerFires ==
  \E r \in pending, does \in Behaviours :
    LET w0 == [World EXCEPT !.pending = @ \ {r}]
        w == IF r.step = "updateTimeout" THEN updateTimeout(w0, does)
                                         ELSE updateRAF(w0, Undefined, does)
    IN  /\ r.ns = "timer"
        /\ HandlesLeft(w)
        /\ Commit(r.step, NoOp, FALSE, w)

\* The host's monotonic clock advances.
Tick ==
  /\ now < MaxTime
  /\ now' = now + 1
  /\ UNCHANGED <<id, running, fn, usingSetTimeout, nativeRAF, pending, nextRAF,
                 nextTimer, last, sinceStop, scenarioC, halt, idBackend,
                 configured, armedSinceStop>>

Next ==
  \/ StartCall
  \/ StopCall
  \/ RestartCall
  \/ AnimationFrameFires
  \/ TimerFires
  \/ Tick

Spec == Init /\ [][Next]_vars

\* A host without requestAnimationFrame never fires an animation frame.
NextNoRAF ==
  \/ StartCall
  \/ StopCall
  \/ RestartCall
  \/ TimerFires
  \/ Tick

SpecNoRAF == InitNoRAF /\ [][NextNoRAF]_vars

TypeOK ==
  /\ id \in 0..MaxHandle
  /\ running \in BOOLEAN
  /\ fn \in Callbacks \cup {NoOp}
  /\ usingSetTimeout \in BOOLEAN
  /\ nativeRAF \in BOOLEAN
  /\ pending \subseteq [ns : {"raf", "timer"}, h : 1..MaxHandle,
                        step : {"updateRAF", "updateTimeout"}]
  /\ nextRAF \in 1..(MaxHandle + 1)
  /\ nextTimer \in 1..(MaxHandle + 1)
  /\ now \in 0..MaxTime

\* C1: in every reachable state at most one arming request of the scheduler
\* is outstanding.
C1_AtMostOneOutstanding ==
  Cardinality(pending) <= 1

\* C2: start() called while running is true leaves fn, usingSetTimeout, id and
\* running unchanged and issues no arming request.
C2_StartWhileRunningIsNoOp ==
  [][last'.op = "start" /\ last' # last /\ running
       => /\ UNCHANGED <<fn, usingSetTimeout, id, running, pending, nextRAF, nextTimer>>
          /\ last'.armed = <<>>
          /\ last'.invoked = <<>>]_vars

\* C2 witness: a start() with another callback was ignored by a running scheduler.
C2_Witness ==
  /\ last.op = "start"
  /\ last.wasRunning
  /\ last.fn # fn
  /\ last.force # usingSetTimeout
  /\ pending # {}

\* C3: once stop() has returned and until the next start() or restart(), every
\* callback invocation is an invocation of the no-op. (The invocation during
\* which the callback itself calls stop() precedes that stop's return.)
C3_StopSilences ==
  sinceStop /\ ~(last.stopped /\ last.op # "stop")
    => \A i \in 1..Len(last.invoked) : last.invoked[i].fn = NoOp

\* C3 witness: a notification fired after stop() and invoked the no-op.
C3_Witness ==
  /\ sinceStop
  /\ last.op \in {"updateRAF", "updateTimeout"}
  /\ last.invoked # <<>>

\* C4: after stop() no arming request is outstanding, id is 0, running is
\* false and fn is the no-op.
C4_StopHaltsLoop ==
  last.op = "stop" => pending = {} /\ id = 0 /\ ~running /\ fn = NoOp

\* C5: after start(cb, false) on a stopped scheduler and stop() before any
\* notification fired, cb is never invoked while neither start() nor restart()
\* is called.
C5_ScenarioC ==
  scenarioC.phase = "stopped"
    => \A i \in 1..Len(last.invoked) : last.invoked[i].fn # scenarioC.cb

\* C5 witness: in that scenario the host delivered the notification armed by start().
C5_Witness ==
  /\ scenarioC.phase = "stopped"
  /\ scenarioC.cb \in Callbacks
  /\ last.op = "updateRAF"
  /\ last.invoked # <<>>

\* C6: start(callback, forceFallback) while not running (callback not
\* throwing) sets running, stores callback, sets usingSetTimeout to
\* forceFallback and issues exactly one arming request on the selected backend.
C6_StartEffect ==
  [][last'.op = "start" /\ last' # last /\ ~running /\ ~last'.threw /\ ~last'.stopped
       => /\ running'
          /\ fn' = last'.fn
          /\ usingSetTimeout' = last'.force
          /\ last'.armed = <<IF last'.force THEN "timer" ELSE "raf">>]_vars

\* C7: restart() while the loop started by the latest start() is active keeps
\* the callback and arms on the backend the active chain was using.
C7_RestartKeepsBackend ==
  [][(/\ last'.op = "restart" /\ last' # last /\ ~last'.threw /\ ~last'.stopped
      /\ running /\ ~sinceStop
      /\ (\E r \in pending : r.ns = last.chain))
       => (fn' = fn /\ last'.armed = <<last.chain>>)]_vars

C9_RunningIffOutstanding ==
  running <=> pending # {}

\* C10: start() and restart() never invoke the callback before returning.
C10_NoSynchronousInvocation ==
  last.op \in {"start", "restart"} => last.invoked = <<>>

\* The steps the host triggers by firing a request.
Steps == {"updateRAF", "updateTimeout"}

\* C11: stop() in a stopped state cancels only the sentinel handle 0 and
\* leaves id, running, fn and usingSetTimeout unchanged; in any state
\* stop(); stop() yields the state of a single stop().
C11_StopIdempotent ==
  [][/\ LET a == stop(World)
            b == stop([a EXCEPT !.cancelled = <<>>])
        IN  /\ <<b.id, b.running, b.fn, b.usingSetTimeout, b.pending>>
                 = <<a.id, a.running, a.fn, a.usingSetTimeout, a.pending>>
            /\ b.cancelled[1].h = 0
     /\ (last'.op = "stop" /\ last' # last
         /\ id = 0 /\ ~running /\ fn = NoOp /\ pending = {})
          => /\ UNCHANGED <<id, running, fn, usingSetTimeout, pending>>
             /\ last'.cancelled
                  = <<[prim |-> IF usingSetTimeout THEN "timer" ELSE "raf", h |-> 0]>>]_vars

\* C11 witness: stop() was called on a scheduler that a forced start and a
\* stop() had left stopped.
C11_Witness ==
  /\ last.op = "stop"
  /\ ~last.wasRunning /\ last.wasId = 0 /\ last.wasFn = NoOp
  /\ pending = {}
  /\ configured.set
  /\ usingSetTimeout

\* C12: in a host without requestAnimationFrame, start(fn, false) on a
\* scheduler that is not running leaves usingSetTimeout true and arms through
\* the timer primitive.
C12_FallbackSelection ==
  (~nativeRAF /\ last.op = "start" /\ ~last.wasRunning /\ ~last.force)
    => (usingSetTimeout /\ last.armed = <<"timer">>)

\* C13: in a host without requestAnimationFrame, every invocation of a
\* callback receives a reading of the clock, never undefined.
C13_ClockTimestamps ==
  ~nativeRAF
    => \A i \in 1..Len(last.invoked) :
         last.invoked[i].fn \in Callbacks => last.invoked[i].ts = now

\* C14: restart() called when not running (the callback returning normally)
\* sets running and starts exactly one chain with the callback and on the
\* backend of the most recent start().
C14_RestartLikeStart ==
  [][(/\ last'.op = "restart" /\ last' # last /\ ~last'.threw /\ ~last'.stopped
      /\ ~running /\ configured.set)
       => /\ running'
          /\ fn' = configured.fn
          /\ last'.armed = <<IF configured.force THEN "timer" ELSE "raf">>]_vars

\* C15: every fired notification invokes the callback exactly once, with the
\* host's timestamp, before the step issues its arming request; over
\* consecutive firings the timestamps do not decrease.
C15_StrictSequencing ==
  [][(last' # last /\ last'.op \in Steps)
       => /\ Len(last'.invoked) = 1
          /\ last'.invoked[1].armedBefore = 0
          /\ Len(last'.armed) <= 1
          /\ last'.invoked[1].ts = now
          /\ (last.op \in Steps => last'.invoked[1].ts >= last.invoked[1].ts)]_vars

\* C15 witness: two firings in a row, the clock having advanced, each
\* followed by its arming request.
C15_Witness ==
  /\ last.op \in Steps
  /\ last.invoked[1].fn \in Callbacks
  /\ last.invoked[1].ts > 0
  /\ last.armed # <<>>
  /\ last.wasId # 0

\* C16: every handle other than 0 that stop() or restart() cancels is the
\* handle held in id, passed to the cancellation primitive of the backend
\* that issued it.
C16_CancelMatchesBackend ==
  [][last' # last
       => \A i \in 1..Len(last'.cancelled) :
            last'.cancelled[i].h # 0
              => last'.cancelled[i] = [prim |-> idBackend, h |-> id]]_vars

\* C17: running = false implies id = 0.
C17_StoppedHasNoHandle ==
  ~running => id = 0

\* C18: after stop() has returned, and until the next start() or restart(),
\* the scheduler issues at most one arming request.
C18_BoundedAnomaly ==
  sinceStop => armedSinceStop <= 1

\* C19: during a restart() called while running, no callback invocation sees
\* running = false.
C19_RestartHidesToggle ==
  (last.op = "restart" /\ last.wasRunning)
    => \A i \in 1..Len(last.invoked) : last.invoked[i].running

====
